---- MODULE Spec2Model ----
(***************************************************************************)
(* Aquarium puzzle solver (src/src/main.rs): the Board, its flood and      *)
(* invalidate primitives, the propagation loop of Board::solve with its    *)
(* four rules R1..R4, and Board::is_solved.                                *)
(*                                                                         *)
(* Vec indices are 0-based as in the source; the per-column row lists are  *)
(* TLA+ sequences, so element k of a Vec is element k+1 of the sequence.   *)
(* A HashMap is a function whose DOMAIN is its key set.  The iteration     *)
(* order of a HashMap is unspecified but the same every time an unchanged  *)
(* map is iterated: the first visit of a column picks each next partition  *)
(* nondeterministically among those not yet visited and records the order, *)
(* later visits in the same solve() call replay it.                        *)
(***************************************************************************)
EXTENDS Integers, Sequences, FiniteSets, TLC

\* Boards of the general specification have at most MaxCells cells.
MaxCells == 4

VARIABLES
    width, height, cells, row_hints, col_hints,  \* struct Board
    pc,                \* position in game()/solve()
    ix, iy,            \* loop variables of the row and column loops
    updated,           \* `updated` flag of the round
    row_partitions,    \* per row: partition -> size
    col_partitions,    \* per column: partition -> ascending row list
    remainder,         \* hint minus flooded count, taken at row/column entry
    map_totals,        \* row: state -> count, taken at row entry
    map_state_totals,  \* column: partition -> (state -> count), at column entry
    todo,              \* partitions of the column still to be visited
    order,             \* per column: the order its map yielded its partitions
    partition,         \* partition of the current loop iteration
    round_start,       \* observer: cells when the current round began
    fired_rounds,      \* observer: rounds that ended with updated = true
    call,              \* observer: the flood/invalidate call of the last step
    run,               \* observer: 1 in the first solve() call, 2 in the second
    returned,          \* observer: cells when the first solve() returned
    first_order,       \* observer: `order` when the first solve() returned
    solutions,         \* observer: the valid solutions of the puzzle
    ret                \* value returned by the last is_solved() call

vars == <<width, height, cells, row_hints, col_hints, pc, ix, iy, updated,
          row_partitions, col_partitions, remainder, map_totals,
          map_state_totals, todo, order, partition, round_start,
          fired_rounds, call, run, returned, first_order, solutions,
          ret>>

CellState == {"Empty", "Flooded", "Invalid"}

NoCall == [rule |-> "none", x |-> 0, y |-> 0, was |-> "Empty"]

Min(a, b) == IF a < b THEN a ELSE b

RECURSIVE SumOf(_, _)
SumOf(f, S) ==
    IF S = {} THEN 0
    ELSE LET k == CHOOSE k \in S : TRUE IN f[k] + SumOf(f, S \ {k})

\* HashMap::get(key).unwrap_or(&default)
Get(map, key, default) == IF key \in DOMAIN map THEN map[key] ELSE default

(***************************************************************************)
(* Board accessors                                                         *)
(***************************************************************************)
cell_at(cs, x, y) == cs[y * width + x]

cell_state_at(cs, x, y) == cs[y * width + x].state

partition_at(cs, x, y) == cs[y * width + x].partition

set_cell_at(cs, x, y, state) == [cs EXCEPT ![y * width + x].state = state]

\* A flood that forgets the rest of the row: only column x is written.
FloodColumnOnly(cs, x, y) ==
    [i \in DOMAIN cs |->
        IF i % width = x /\ i \div width >= y
           /\ cs[i].partition = partition_at(cs, x, y)
        THEN [cs[i] EXCEPT !.state = "Flooded"] ELSE cs[i]]

\* A flood that ignores the row it is called at: the whole partition.
FloodAllRows(cs, x, y) ==
    [i \in DOMAIN cs |->
        IF cs[i].partition = partition_at(cs, x, y)
        THEN [cs[i] EXCEPT !.state = "Flooded"] ELSE cs[i]]

\* A flood that also moves the cells it writes into partition 0.
FloodRelabel(cs, x, y) ==
    [i \in DOMAIN cs |->
        IF i \div width >= y /\ cs[i].partition = partition_at(cs, x, y)
        THEN [state |-> "Flooded", partition |-> 0] ELSE cs[i]]

\* flood: the nested loops visit every cell of the rows y..height-1 once
\* (cell i lies in row i \div width) and set_cell_at writes Flooded to
\* those of the partition of (x, y).
flood(cs, x, y) ==
    [i \in DOMAIN cs |->
        IF i \div width >= y /\ cs[i].partition = partition_at(cs, x, y)
        THEN [cs[i] EXCEPT !.state = "Flooded"]
        ELSE cs[i]]

\* An invalidate that forgets the rows above: only row y is written.
InvalidateRowOnly(cs, x, y) ==
    [i \in DOMAIN cs |->
        IF i \div width = y /\ cs[i].partition = partition_at(cs, x, y)
        THEN [cs[i] EXCEPT !.state = "Invalid"] ELSE cs[i]]

\* An invalidate that ignores the row it is called at: the whole partition.
InvalidateAllRows(cs, x, y) ==
    [i \in DOMAIN cs |->
        IF cs[i].partition = partition_at(cs, x, y)
        THEN [cs[i] EXCEPT !.state = "Invalid"] ELSE cs[i]]

\* invalidate: the nested loops visit every cell of the rows 0..y once and
\* set_cell_at writes Invalid to those of the partition of (x, y).
invalidate(cs, x, y) ==
    [i \in DOMAIN cs |->
        IF i \div width <= y /\ cs[i].partition = partition_at(cs, x, y)
        THEN [cs[i] EXCEPT !.state = "Invalid"]
        ELSE cs[i]]

(***************************************************************************)
(* Aggregates of solve()                                                   *)
(***************************************************************************)
\* For the row y, the state of each partition in the row: or_insert keeps
\* the state of the partition's first cell in the row.
row_partition_states(cs, y) ==
    [p \in {partition_at(cs, x, y) : x \in 0..width - 1} |->
        LET first == CHOOSE x \in 0..width - 1 :
                        /\ partition_at(cs, x, y) = p
                        /\ \A x2 \in 0..x - 1 : partition_at(cs, x2, y) # p
        IN cell_state_at(cs, first, y)]

\* row_partitions[y]: partition -> number of its cells in row y.
RowSizes(cs, y) ==
    [p \in {partition_at(cs, x, y) : x \in 0..width - 1} |->
        Cardinality({x \in 0..width - 1 : partition_at(cs, x, y) = p})]

\* Row totals that count the partitions in each state, not their cells.
RowStateCountsOfPartitions(map_sizes, map_states) ==
    [s \in {map_states[p] : p \in DOMAIN map_states} |->
        Cardinality({p \in DOMAIN map_states : map_states[p] = s})]

\* For a row, the number of cells in each state.
row_state_counts(map_sizes, map_states) ==
    [s \in {map_states[p] : p \in DOMAIN map_states} |->
        SumOf(map_sizes, {p \in DOMAIN map_states : map_states[p] = s})]

RowTotals(cs, y) ==
    row_state_counts(row_partitions[y], row_partition_states(cs, y))

RowRemainder(cs, y) == row_hints[y] - Get(RowTotals(cs, y), "Flooded", 0)

\* Column lists built with every row put in front of its list.
RECURSIVE ColListsPrepend(_, _, _)
ColListsPrepend(cs, x, n) ==
    IF n = 1 THEN (partition_at(cs, x, 0) :> <<0>>)
    ELSE LET prev == ColListsPrepend(cs, x, n - 1)
             p == partition_at(cs, x, n - 1)
         IN IF p \in DOMAIN prev
            THEN [prev EXCEPT ![p] = <<n - 1>> \o @]
            ELSE prev @@ (p :> <<n - 1>>)

\* col_partitions[x] after the rows 0..n-1 were pushed: partition -> rows.
RECURSIVE ColLists(_, _, _)
ColLists(cs, x, n) ==
    IF n = 1 THEN (partition_at(cs, x, 0) :> <<0>>)
    ELSE LET prev == ColLists(cs, x, n - 1)
             p == partition_at(cs, x, n - 1)
         IN IF p \in DOMAIN prev
            THEN [prev EXCEPT ![p] = Append(@, n - 1)]
            ELSE prev @@ (p :> <<n - 1>>)

\* The cells of column x, top to bottom.
col_x(cs, x) == [y \in 0..height - 1 |-> cs[y * width + x]]

\* For each partition of the column: state -> count.
ColStateTotals(cs, x) ==
    LET col == col_x(cs, x)
    IN [p \in {col[y].partition : y \in DOMAIN col} |->
          [s \in {col[y].state : y \in {y2 \in DOMAIN col : col[y2].partition = p}} |->
              Cardinality({y \in DOMAIN col :
                              col[y].partition = p /\ col[y].state = s})]]

\* A column remainder that is always 0, as if every column were full.
ColRemainderZero(cs, x) == 0

\* A column remainder that forgets the cells already Flooded.
ColRemainderOfHint(cs, x) == col_hints[x]

ColRemainder(cs, x) ==
    LET col == col_x(cs, x)
    IN col_hints[x] - Cardinality({y \in DOMAIN col : col[y].state = "Flooded"})

(***************************************************************************)
(* is_solved: the row loop, then the column loop, each returning false at  *)
(* the first line whose flooded count differs from its hint.               *)
(***************************************************************************)
RECURSIVE RowsOk(_, _)
RowsOk(cs, y) ==
    IF y >= height THEN TRUE
    ELSE LET offset == width * y
             count == Cardinality({i \in offset..offset + width - 1 :
                                      cs[i].state = "Flooded"})
         IN IF count # row_hints[y] THEN FALSE ELSE RowsOk(cs, y + 1)

RECURSIVE ColsOk(_, _)
ColsOk(cs, x) ==
    IF x >= width THEN TRUE
    ELSE LET count == Cardinality({y \in 0..height - 1 :
                                      cell_at(cs, x, y).state = "Flooded"})
         IN IF count # col_hints[x] THEN FALSE ELSE ColsOk(cs, x + 1)

\* An is_solved that forgets the column loop.
IsSolvedRowsOnly(cs) == RowsOk(cs, 0)

is_solved(cs) == IF ~RowsOk(cs, 0) THEN FALSE ELSE ColsOk(cs, 0)

(***************************************************************************)
(* Boards                                                                  *)
(***************************************************************************)
Shapes == {s \in (1..MaxCells) \X (1..MaxCells) : s[1] * s[2] <= MaxCells}

\* Partition layouts of n cells, ids numbered in order of first appearance
\* (the code only compares ids and uses them as map keys).
Layouts(n) ==
    {f \in [0..n - 1 -> 0..n - 1] :
        /\ f[0] = 0
        /\ \A i \in 1..n - 1 : \E j \in 0..i - 1 : f[i] <= f[j] + 1}

\* Cells as built by make_b0: every state Empty, the given partition ids.
EmptyCells(partitions) ==
    [i \in DOMAIN partitions |-> [state |-> "Empty", partition |-> partitions[i]]]

B0Partitions ==
    [i \in 0..35 |->
        << 0, 0, 0, 0, 1, 1,
           0, 0, 2, 2, 1, 1,
           3, 0, 3, 2, 4, 5,
           3, 3, 3, 2, 4, 5,
           3, 3, 3, 3, 3, 5,
           3, 3, 5, 5, 5, 5 >>[i + 1]]

B0RowHints == [y \in 0..5 |-> <<2, 4, 3, 2, 1, 4>>[y + 1]]

B0ColHints == [x \in 0..5 |-> <<1, 2, 1, 3, 5, 4>>[x + 1]]

\* The states make_b0_solved writes, row-major.
B0SolvedStates ==
    [i \in 0..35 |->
        << "Invalid", "Invalid", "Invalid", "Invalid", "Flooded", "Flooded",
           "Flooded", "Flooded", "Invalid", "Invalid", "Flooded", "Flooded",
           "Invalid", "Flooded", "Invalid", "Flooded", "Flooded", "Invalid",
           "Invalid", "Invalid", "Invalid", "Flooded", "Flooded", "Invalid",
           "Invalid", "Invalid", "Invalid", "Invalid", "Invalid", "Flooded",
           "Invalid", "Invalid", "Flooded", "Flooded", "Flooded", "Flooded" >>[i + 1]]

\* The row of the cell at index i of the row-major cell array.
RowOf(i) == i \div width

\* A water level for every partition of the board.
Levels == [{cells[i].partition : i \in DOMAIN cells} -> 0..height]

\* The cell i is flooded under the levels.
Wet(level, i) == RowOf(i) >= level[cells[i].partition]

\* The levels are a valid solution of the puzzle: the count of flooded
\* cells of every row and column matches its hint.
Valid(level) ==
    /\ \A y \in 0..height - 1 :
          Cardinality({x \in 0..width - 1 : Wet(level, y * width + x)}) = row_hints[y]
    /\ \A x \in 0..width - 1 :
          Cardinality({y \in 0..height - 1 : Wet(level, y * width + x)}) = col_hints[x]

\* Everything but the board and the position, before solve() is called.
InitLocals ==
    /\ ix = 0
    /\ iy = 0
    /\ updated = FALSE
    /\ row_partitions = <<>>
    /\ col_partitions = <<>>
    /\ remainder = 0
    /\ map_totals = <<>>
    /\ map_state_totals = <<>>
    /\ todo = {}
    /\ order = <<>>
    /\ partition = 0
    /\ round_start = cells
    /\ fired_rounds = 0
    /\ call = NoCall
    /\ run = 1
    /\ returned = cells
    /\ first_order = <<>>
    /\ solutions = {level \in Levels : Valid(level)}
    /\ ret = FALSE

\* Any board of at most MaxCells cells, any layout, any hints between 0
\* and the length of the line, every cell Empty.
Init ==
    /\ \E s \in Shapes :
          /\ width = s[1]
          /\ height = s[2]
          /\ \E f \in Layouts(s[1] * s[2]) : cells = EmptyCells(f)
          /\ row_hints \in [0..s[2] - 1 -> 0..s[1]]
          /\ col_hints \in [0..s[1] - 1 -> 0..s[2]]
    /\ pc = "start"
    /\ InitLocals

\* make_b0()
InitB0 ==
    /\ width = 6
    /\ height = 6
    /\ cells = EmptyCells(B0Partitions)
    /\ row_hints = B0RowHints
    /\ col_hints = B0ColHints
    /\ pc = "start"
    /\ InitLocals

(***************************************************************************)
(* solve()                                                                 *)
(***************************************************************************)
\* The prologue of solve(): row_partitions and col_partitions are built,
\* then the loop is entered.
SolveEnter ==
    /\ row_partitions' = [y \in 0..height - 1 |-> RowSizes(cells, y)]
    /\ col_partitions' = [x \in 0..width - 1 |-> ColLists(cells, x, height)]
    /\ order' = [x \in 0..width - 1 |-> <<>>]
    /\ pc' = "loop"
    /\ call' = NoCall
    /\ UNCHANGED <<solutions, first_order, ret, width, height, cells, row_hints, col_hints, ix, iy, updated,
                   remainder, map_totals, map_state_totals, todo, partition,
                   round_start, fired_rounds>>

SolveStart ==
    /\ pc = "start"
    /\ SolveEnter
    /\ UNCHANGED <<run, returned>>

\* Top of `loop`: updated = false, then the first row of the R1 pass
\* (rows are visited in reverse) has its aggregates taken.
LoopTop ==
    /\ pc = "loop"
    /\ updated' = FALSE
    /\ round_start' = cells
    /\ pc' = "R1"
    /\ iy' = height - 1
    /\ ix' = 0
    /\ remainder' = RowRemainder(cells, height - 1)
    /\ call' = NoCall
    /\ UNCHANGED <<solutions, first_order, ret, order, width, height, cells, row_hints, col_hints, row_partitions,
                   col_partitions, map_totals, map_state_totals, todo,
                   partition, fired_rounds, run, returned>>

\* An R1 that also fires when the partition just fits the remainder.
R1FiresNonStrict(cell, sizes, rem) ==
    cell.state = "Empty" /\ sizes[cell.partition] >= rem

\* R1 fires on an Empty cell whose partition is larger in the row than the
\* row's remainder.
R1Fires(cell, sizes, rem) ==
    cell.state = "Empty" /\ sizes[cell.partition] > rem

\* One iteration of the inner loop of the R1 pass, cell (ix, iy).
R1Cell ==
    /\ pc = "R1"
    /\ LET cell_ix == cell_at(cells, ix, iy)
           fire == R1Fires(cell_ix, row_partitions[iy], remainder)
           cs == IF fire THEN invalidate(cells, ix, iy) ELSE cells
       IN /\ cells' = cs
          /\ updated' = (updated \/ fire)
          /\ call' = IF fire
                     THEN [rule |-> "R1", x |-> ix, y |-> iy, was |-> cell_ix.state]
                     ELSE NoCall
          /\ IF ix + 1 < width
             THEN /\ ix' = ix + 1
                  /\ UNCHANGED <<pc, iy, remainder, map_totals>>
             ELSE IF iy > 0
             THEN /\ ix' = 0
                  /\ iy' = iy - 1
                  /\ remainder' = RowRemainder(cs, iy - 1)
                  /\ UNCHANGED <<pc, map_totals>>
             ELSE /\ pc' = "R2"
                  /\ ix' = 0
                  /\ iy' = 0
                  /\ remainder' = RowRemainder(cs, 0)
                  /\ map_totals' = RowTotals(cs, 0)
    /\ UNCHANGED <<solutions, first_order, ret, order, width, height, row_hints, col_hints, row_partitions,
                   col_partitions, map_state_totals, todo, partition,
                   round_start, fired_rounds, run, returned>>

\* An R2 that fires on every Empty cell.
R2FiresAlways(totals, sizes, p, rem) == TRUE

\* An R2 that also fires when the other Empty cells just reach the remainder.
R2FiresNonStrict(totals, sizes, p, rem) == totals["Empty"] - sizes[p] <= rem

\* R2 fires on an Empty cell when the other Empty cells of the row cannot
\* reach the remainder.
R2Fires(totals, sizes, p, rem) == totals["Empty"] - sizes[p] < rem

\* One iteration of the inner loop of the R2 pass, cell (ix, iy).  The
\* index map_totals[&CellState::Empty] panics when the key is missing.
R2Cell ==
    /\ pc = "R2"
    /\ LET cell_ix == cell_at(cells, ix, iy)
           skip == cell_ix.state # "Empty"
           panic == ~skip /\ "Empty" \notin DOMAIN map_totals
           fire == ~skip /\ ~panic
                   /\ R2Fires(map_totals, row_partitions[iy], cell_ix.partition, remainder)
           cs == IF fire THEN flood(cells, ix, iy) ELSE cells
       IN IF panic
          THEN /\ pc' = "panic"
               /\ call' = NoCall
               /\ UNCHANGED <<cells, updated, ix, iy, remainder, map_totals,
                              map_state_totals, todo>>
          ELSE /\ cells' = cs
               /\ updated' = (updated \/ fire)
               /\ call' = IF fire
                          THEN [rule |-> "R2", x |-> ix, y |-> iy, was |-> cell_ix.state]
                          ELSE NoCall
               /\ IF ix + 1 < width
                  THEN /\ ix' = ix + 1
                       /\ UNCHANGED <<pc, iy, remainder, map_totals,
                                      map_state_totals, todo>>
                  ELSE IF iy + 1 < height
                  THEN /\ ix' = 0
                       /\ iy' = iy + 1
                       /\ remainder' = RowRemainder(cs, iy + 1)
                       /\ map_totals' = RowTotals(cs, iy + 1)
                       /\ UNCHANGED <<pc, map_state_totals, todo>>
                  ELSE /\ pc' = "R3"
                       /\ ix' = 0
                       /\ iy' = 0
                       /\ remainder' = ColRemainder(cs, 0)
                       /\ map_totals' = <<>>
                       /\ map_state_totals' = ColStateTotals(cs, 0)
                       /\ todo' = DOMAIN col_partitions[0]
    /\ UNCHANGED <<solutions, first_order, ret, order, width, height, row_hints, col_hints, row_partitions,
                   col_partitions, partition, round_start, fired_rounds, run,
                   returned>>

\* An R3 index one place further down the row list.
R3IndexNext(this_invalid, partition_extra) == this_invalid + partition_extra

\* An R4 index one place further up the row list.
R4IndexPrev(this_invalid, this_empty, partition_required) ==
    this_invalid + (this_empty - partition_required) - 1

\* An R4 index counted in the Empty cells only, without the Invalid ones.
R4IndexOfEmpty(this_invalid, this_empty, partition_required) ==
    this_empty - partition_required

\* The index R3 invalidates at, into the partition's row list (0-based).
R3Index(this_invalid, partition_extra) == this_invalid + partition_extra - 1

\* The index R4 floods at, into the partition's row list (0-based).
R4Index(this_invalid, this_empty, partition_required) ==
    this_invalid + (this_empty - partition_required)

\* An other-Empty count over the partitions the loop has not visited yet.
OtherEmptyOfTodo(totals, p) ==
    SumOf([q \in DOMAIN totals |-> Get(totals[q], "Empty", 0)], todo \ {p})

\* Sum of the Empty counts of the other partitions of the column.
OtherEmptyCount(totals, p) ==
    SumOf([q \in DOMAIN totals |-> Get(totals[q], "Empty", 0)],
          DOMAIN totals \ {p})

\* usize::try_from(idx).unwrap() followed by iy_list[idx]
IndexPanics(idx, iy_list) == idx < 0 \/ idx >= Len(iy_list)

\* The partitions the map of column ix may yield next: the recorded one
\* once the column's order is known, any unvisited one before.
NextPartitions ==
    LET n == Cardinality(DOMAIN col_partitions[ix])
    IN IF Len(order[ix]) = n
       THEN {order[ix][n - Cardinality(todo) + 1]}
       ELSE todo

\* First half of one iteration of the partition loop of column ix: the
\* next partition of the map is taken and R3 is tried on it.  With
\* `record` the order of a first visit is kept for the later visits.
R3Step(record) ==
    /\ pc = "R3"
    /\ \E p \in NextPartitions :
          LET iy_list == col_partitions[ix][p]
              this_empty == Get(map_state_totals[p], "Empty", 0)
              this_invalid == Get(map_state_totals[p], "Invalid", 0)
              partition_extra == this_empty - remainder
              invalid_cell_idx == R3Index(this_invalid, partition_extra)
              fire == partition_extra > 0
          IN IF fire /\ IndexPanics(invalid_cell_idx, iy_list)
             THEN /\ pc' = "panic"
                  /\ call' = NoCall
                  /\ UNCHANGED <<cells, updated, partition, todo, order>>
             ELSE /\ partition' = p
                  /\ todo' = todo \ {p}
                  /\ order' = IF record /\ Len(order[ix]) < Cardinality(DOMAIN col_partitions[ix])
                              THEN [order EXCEPT ![ix] = Append(@, p)]
                              ELSE order
                  /\ pc' = "R4"
                  /\ IF fire
                     THEN LET y == iy_list[invalid_cell_idx + 1]
                          IN /\ cells' = invalidate(cells, ix, y)
                             /\ updated' = TRUE
                             /\ call' = [rule |-> "R3", x |-> ix, y |-> y,
                                         was |-> cell_state_at(cells, ix, y)]
                     ELSE /\ call' = NoCall
                          /\ UNCHANGED <<cells, updated>>
    /\ UNCHANGED <<solutions, first_order, ret, width, height, row_hints, col_hints, ix, iy, row_partitions,
                   col_partitions, remainder, map_totals, map_state_totals,
                   round_start, fired_rounds, run, returned>>

R3Part == R3Step(TRUE)

\* The same step with the order left free at every visit: every behaviour
\* of R3Part is one of R3PartAnyOrder.
R3PartAnyOrder == R3Step(FALSE)

\* Second half of the iteration: R4 is tried on the same partition with
\* the aggregates taken at column entry, then the loops advance and the
\* iteration's `partition` goes out of scope.
R4Part ==
    /\ pc = "R4"
    /\ LET iy_list == col_partitions[ix][partition]
           this_empty == Get(map_state_totals[partition], "Empty", 0)
           this_invalid == Get(map_state_totals[partition], "Invalid", 0)
           other_empty_count == OtherEmptyCount(map_state_totals, partition)
           partition_required == remainder - other_empty_count
           flood_cell_idx == R4Index(this_invalid, this_empty, partition_required)
           fire == partition_required > 0
       IN IF fire /\ IndexPanics(flood_cell_idx, iy_list)
          THEN /\ pc' = "panic"
               /\ call' = NoCall
               /\ UNCHANGED <<cells, updated, ix, remainder, map_state_totals, todo>>
          ELSE LET y == iy_list[flood_cell_idx + 1]
                   cs == IF fire THEN flood(cells, ix, y) ELSE cells
               IN /\ cells' = cs
                  /\ updated' = (updated \/ fire)
                  /\ call' = IF fire
                             THEN [rule |-> "R4", x |-> ix, y |-> y,
                                   was |-> cell_state_at(cells, ix, y)]
                             ELSE NoCall
                  /\ IF todo # {}
                     THEN /\ pc' = "R3"
                          /\ UNCHANGED <<ix, remainder, map_state_totals, todo>>
                     ELSE IF ix + 1 < width
                     THEN /\ pc' = "R3"
                          /\ ix' = ix + 1
                          /\ remainder' = ColRemainder(cs, ix + 1)
                          /\ map_state_totals' = ColStateTotals(cs, ix + 1)
                          /\ todo' = DOMAIN col_partitions[ix + 1]
                     ELSE /\ pc' = "check"
                          /\ ix' = 0
                          /\ remainder' = 0
                          /\ map_state_totals' = <<>>
                          /\ todo' = {}
    /\ partition' = 0
    /\ UNCHANGED <<solutions, first_order, ret, order, width, height, row_hints, col_hints, iy, row_partitions,
                   col_partitions, map_totals, round_start, run, returned,
                   fired_rounds>>

\* A loop that breaks after its first round whatever `updated` says.
BreakAlways(u) == TRUE

\* if !updated { break; }
LoopBreaks(u) == ~u

\* End of a round.  fired_rounds counts the rounds in which a rule fired
\* and stops counting at width*height + 1.
RoundEnd ==
    /\ pc = "check"
    /\ pc' = IF LoopBreaks(updated) THEN "done" ELSE "loop"
    /\ fired_rounds' = IF updated
                       THEN Min(fired_rounds + 1, width * height + 1)
                       ELSE fired_rounds
    /\ call' = NoCall
    /\ UNCHANGED <<solutions, first_order, ret, order, width, height, cells, row_hints, col_hints, ix, iy,
                   updated, row_partitions, col_partitions, remainder, map_totals,
                   map_state_totals, todo, partition, round_start, run, returned>>

\* solve() is called a second time on the board the first call returned.
SolveAgain ==
    /\ pc = "done"
    /\ run = 1
    /\ run' = 2
    /\ returned' = cells
    /\ SolveEnter

Next ==
    \/ SolveStart
    \/ LoopTop
    \/ R1Cell
    \/ R2Cell
    \/ R3Part
    \/ R4Part
    \/ RoundEnd
    \/ SolveAgain

\* solve() on every small board.
Spec == Init /\ [][Next]_vars

\* The sample puzzle has columns of four partitions: its partition loops
\* are explored with the order free at every visit, which includes every
\* behaviour of the recorded orders.
NextB0 ==
    \/ SolveStart
    \/ LoopTop
    \/ R1Cell
    \/ R2Cell
    \/ R3PartAnyOrder
    \/ R4Part
    \/ RoundEnd
    \/ SolveAgain

\* solve() on the sample puzzle; the program is sequential and each step
\* of it is taken, hence the weak fairness of NextB0.
SpecB0 == InitB0 /\ [][NextB0]_vars /\ WF_vars(NextB0)

(***************************************************************************)
(* A fixture: a board from Board::make given hints, whose cells are set    *)
(* one by one with set_cell_at and queried with is_solved.                 *)
(***************************************************************************)
\* The cells Board::make builds: Empty, partition -1.
MakeCells(n) == [i \in 0..n - 1 |-> [state |-> "Empty", partition |-> -1]]

InitFixture ==
    /\ \E s \in Shapes :
          /\ width = s[1]
          /\ height = s[2]
          /\ cells = MakeCells(s[1] * s[2])
          /\ row_hints \in [0..s[2] - 1 -> 0..s[1]]
          /\ col_hints \in [0..s[1] - 1 -> 0..s[2]]
    /\ pc = "fixture"
    /\ InitLocals

SetCellAt ==
    /\ pc \in {"fixture", "queried"}
    /\ \E x \in 0..width - 1, y \in 0..height - 1, state \in CellState :
          cells' = set_cell_at(cells, x, y, state)
    /\ pc' = "fixture"
    /\ UNCHANGED <<solutions, first_order, ret, order, width, height, row_hints, col_hints, ix, iy, updated,
                   row_partitions, col_partitions, remainder, map_totals,
                   map_state_totals, todo, partition, round_start,
                   fired_rounds, call, run, returned>>

\* println!("Board is solved: {}", board.is_solved())
IsSolvedCall ==
    /\ pc = "fixture"
    /\ ret' = is_solved(cells)
    /\ pc' = "queried"
    /\ UNCHANGED <<solutions, first_order, order, width, height, cells, row_hints, col_hints, ix, iy, updated,
                   row_partitions, col_partitions, remainder, map_totals,
                   map_state_totals, todo, partition, round_start,
                   fired_rounds, call, run, returned>>

NextFixture ==
    \/ SetCellAt
    \/ IsSolvedCall

SpecFixture == InitFixture /\ [][NextFixture]_vars

(***************************************************************************)
(* The primitives called directly, as the commented-out board.flood(0, 0)  *)
(* and board.invalidate(0, 5) of game() do: on a board with partitions,    *)
(* flood, invalidate and set_cell_at are called at any cell in any order,  *)
(* so that they act on every assignment of states.  round_start holds the  *)
(* cells before the last call and `call` its arguments.  The primitives    *)
(* never read the hints, which are all zero here.                          *)
(***************************************************************************)
InitCalls ==
    /\ \E s \in Shapes :
          /\ width = s[1]
          /\ height = s[2]
          /\ \E f \in Layouts(s[1] * s[2]) : cells = EmptyCells(f)
          /\ row_hints = [y \in 0..s[2] - 1 |-> 0]
          /\ col_hints = [x \in 0..s[1] - 1 |-> 0]
    /\ pc = "calls"
    /\ InitLocals

\* What a direct call leaves alone.
CallFrame ==
    UNCHANGED <<solutions, first_order, ret, order, width, height, row_hints, col_hints, ix, iy, updated,
                row_partitions, col_partitions, remainder, map_totals,
                map_state_totals, todo, partition, fired_rounds, run,
                returned, pc>>

\* board.flood(x, y)
FloodCall ==
    /\ pc = "calls"
    /\ \E x \in 0..width - 1, y \in 0..height - 1 :
          /\ cells' = flood(cells, x, y)
          /\ call' = [rule |-> "flood", x |-> x, y |-> y,
                      was |-> cell_state_at(cells, x, y)]
    /\ round_start' = cells
    /\ CallFrame

\* board.invalidate(x, y)
InvalidateCall ==
    /\ pc = "calls"
    /\ \E x \in 0..width - 1, y \in 0..height - 1 :
          /\ cells' = invalidate(cells, x, y)
          /\ call' = [rule |-> "invalidate", x |-> x, y |-> y,
                      was |-> cell_state_at(cells, x, y)]
    /\ round_start' = cells
    /\ CallFrame

\* board.set_cell_at(x, y, state)
SetCellCall ==
    /\ pc = "calls"
    /\ \E x \in 0..width - 1, y \in 0..height - 1, state \in CellState :
          /\ cells' = set_cell_at(cells, x, y, state)
          /\ call' = [rule |-> "set_cell_at", x |-> x, y |-> y,
                      was |-> cell_state_at(cells, x, y)]
    /\ round_start' = cells
    /\ CallFrame

NextCalls ==
    \/ FloodCall
    \/ InvalidateCall
    \/ SetCellCall

SpecCalls == InitCalls /\ [][NextCalls]_vars

\* Both uses of a board: solve() from an all-Empty board, and the
\* primitives called directly.
InitAll == Init \/ InitCalls

NextAll ==
    \/ Next
    \/ NextCalls

SpecAll == InitAll /\ [][NextAll]_vars

(***************************************************************************)
(* Properties                                                              *)
(***************************************************************************)
States(cs) == [i \in DOMAIN cs |-> cs[i].state]

NoEmpty(cs) == \A i \in DOMAIN cs : cs[i].state # "Empty"

FloodedInRow(cs, y) ==
    Cardinality({x \in 0..width - 1 : cs[y * width + x].state = "Flooded"})

FloodedInCol(cs, x) ==
    Cardinality({y \in 0..height - 1 : cs[y * width + x].state = "Flooded"})

\* A legal change of one cell: none, Empty -> Flooded or Empty -> Invalid.
LegalChange(before, after) == after = before \/ before = "Empty"

\* The board has a valid solution: a water level per partition (the cells
\* of the partition in the rows at or below the level are flooded) whose
\* flooded counts match every row hint and every column hint.
HasSolution ==
    LET parts == {cells[i].partition : i \in DOMAIN cells}
    IN \E level \in [parts -> 0..height] :
          LET wet(i) == RowOf(i) >= level[cells[i].partition]
          IN /\ \A y \in 0..height - 1 :
                   Cardinality({x \in 0..width - 1 : wet(y * width + x)}) = row_hints[y]
             /\ \A x \in 0..width - 1 :
                   Cardinality({y \in 0..height - 1 : wet(y * width + x)}) = col_hints[x]

(***************************************************************************)
(* The program run twice on one puzzle.  Each execution builds its own     *)
(* hash maps, so the second run is free to visit the partitions of a       *)
(* column in another order than the first; the result and the orders of    *)
(* the first run are kept for comparison.  Only puzzles with a valid       *)
(* solution are run a second time.                                         *)
(***************************************************************************)
\* game() again: the board is built anew, every cell Empty, and solve()
\* is entered.
SolveFresh ==
    /\ pc = "done"
    /\ run = 1
    /\ HasSolution
    /\ run' = 3
    /\ returned' = cells
    /\ first_order' = order
    /\ cells' = [i \in DOMAIN cells |-> [cells[i] EXCEPT !.state = "Empty"]]
    /\ round_start' = cells'
    /\ fired_rounds' = 0
    /\ updated' = FALSE
    /\ row_partitions' = [y \in 0..height - 1 |-> RowSizes(cells', y)]
    /\ col_partitions' = [x \in 0..width - 1 |-> ColLists(cells', x, height)]
    /\ order' = [x \in 0..width - 1 |-> <<>>]
    /\ pc' = "loop"
    /\ call' = NoCall
    /\ UNCHANGED <<solutions, ret, width, height, row_hints, col_hints, ix, iy,
                   remainder, map_totals, map_state_totals, todo, partition>>

NextTwice ==
    \/ SolveStart
    \/ LoopTop
    \/ R1Cell
    \/ R2Cell
    \/ R3Part
    \/ R4Part
    \/ RoundEnd
    \/ SolveFresh

SpecTwice == Init /\ [][NextTwice]_vars

\* C1: on the sample puzzle solve() returns, and whenever it has returned
\* no cell is Empty, the cell states are those of make_b0_solved and
\* is_solved() is true.
C1_SampleSolved ==
    /\ <>(pc = "done")
    /\ [](pc = "done" =>
            /\ NoEmpty(cells)
            /\ States(cells) = B0SolvedStates
            /\ is_solved(cells))

\* C1 witness: the first solve() call has returned the solved sample board.
C1_Witness ==
    /\ pc = "done"
    /\ run = 1
    /\ width = 6
    /\ fired_rounds > 0
    /\ States(cells) = B0SolvedStates

\* C2: in every state of solve(), two cells of the same partition in the
\* same row have the same state.
C2_RowUniform ==
    pc \notin {"fixture", "queried"} =>
        \A i, j \in DOMAIN cells :
            (RowOf(i) = RowOf(j) /\ cells[i].partition = cells[j].partition)
                => cells[i].state = cells[j].state

\* C2 witness: a flood or invalidate call has just decided two cells of one
\* partition in one row, next to a cell of the row that is still Empty.
C2_Witness ==
    /\ call.rule # "none"
    /\ \E i, j, k \in DOMAIN cells :
          /\ i # j
          /\ RowOf(i) = RowOf(j)
          /\ RowOf(k) = RowOf(i)
          /\ cells[i].partition = cells[j].partition
          /\ cells[i].state # "Empty"
          /\ cells[j].state # "Empty"
          /\ cells[k].state = "Empty"
          /\ round_start[i].state = "Empty"

\* C3: in every state of solve(), for two cells of the same partition, one
\* in a row above the other: if the lower is Invalid so is the upper, and
\* if the upper is Flooded so is the lower (Invalid rows are a prefix from
\* the top, Flooded rows a suffix from the bottom, no Invalid below a
\* Flooded).
C3_Vertical ==
    pc \notin {"fixture", "queried"} =>
        \A i, j \in DOMAIN cells :
            (RowOf(i) < RowOf(j) /\ cells[i].partition = cells[j].partition)
                => /\ cells[j].state = "Invalid" => cells[i].state = "Invalid"
                   /\ cells[i].state = "Flooded" => cells[j].state = "Flooded"
                   /\ ~(cells[i].state = "Flooded" /\ cells[j].state = "Invalid")

\* C3 witness: a call has just left a partition Invalid in one row and
\* Flooded in a lower row, both rows Empty when the round began.
C3_Witness ==
    /\ call.rule # "none"
    /\ \E i, j \in DOMAIN cells :
          /\ RowOf(i) < RowOf(j)
          /\ cells[i].partition = cells[j].partition
          /\ cells[i].state = "Invalid"
          /\ cells[j].state = "Flooded"
          /\ round_start[i].state = "Empty"
          /\ round_start[j].state = "Empty"

\* C4 (as claimed): at the end of every round, each cell has the state it
\* had when the round began or has moved from Empty to Flooded or Invalid.
C4_RoundMonotone ==
    pc = "check" =>
        \A i \in DOMAIN cells : LegalChange(round_start[i].state, cells[i].state)

\* C5 (as claimed): the number of rounds in which a rule fired never
\* exceeds width*height.
C5_RoundBound == fired_rounds <= width * height

\* C6 (as claimed): on a board without a valid solution solve() does not
\* panic, does not run more than width*height firing rounds, and returns
\* with some cell Empty and is_solved() false.
C6_UnsatQuiesces ==
    (pc \notin {"fixture", "queried"} /\ ~HasSolution) =>
        /\ pc # "panic"
        /\ fired_rounds <= width * height
        /\ pc = "done" => (~NoEmpty(cells) /\ ~is_solved(cells))

\* C7: during a second solve() call on the board the first call returned,
\* no rule fires, no cell changes and the call does not panic.
C7_Idempotent ==
    run = 2 =>
        /\ cells = returned
        /\ ~updated
        /\ call = NoCall
        /\ pc # "panic"

\* C7 witness: the second solve() call has returned, after a first call
\* with at least two rounds in which rules fired.
C7_Witness ==
    /\ run = 2
    /\ pc = "done"
    /\ fired_rounds >= 2
    /\ \E i \in DOMAIN cells : cells[i].state # "Empty"

\* C8: is_solved() returns true exactly when every row and every column
\* has as many Flooded cells as its hint, in any board state.
C8_IsSolvedIff ==
    pc = "queried" =>
        (ret <=> /\ \A y \in 0..height - 1 : FloodedInRow(cells, y) = row_hints[y]
                 /\ \A x \in 0..width - 1 : FloodedInCol(cells, x) = col_hints[x])

\* C8 witness: is_solved() returned true on a board with a Flooded, an
\* Empty and an Invalid cell.
C8_Witness ==
    /\ pc = "queried"
    /\ ret
    /\ \E i, j, k \in DOMAIN cells :
          /\ cells[i].state = "Flooded"
          /\ cells[j].state = "Empty"
          /\ cells[k].state = "Invalid"

\* C9 (as claimed): every step of solve() leaves each cell as it was or
\* moves it from Empty to Flooded or Invalid.
C9_WritesLegal ==
    [][\A i \in DOMAIN cells : LegalChange(cells[i].state, cells'[i].state)]_vars

\* C10 (as claimed): the cell a rule floods or invalidates at is Empty at
\* the moment of the call.
C10_TargetsEmpty == call.rule # "none" => call.was = "Empty"

\* The cells of the partition of (x, y) in the rows from lo to hi.
Targets(cs, x, y, lo, hi) ==
    {i \in DOMAIN cs : /\ cs[i].partition = cs[y * width + x].partition
                       /\ RowOf(i) >= lo
                       /\ RowOf(i) <= hi}

\* From `before` to `after` exactly the cells of T took the state s and
\* no other cell changed its state.
WritesExactly(before, after, T, s) ==
    /\ DOMAIN after = DOMAIN before
    /\ \A i \in T : after[i].state = s
    /\ \A i \in DOMAIN before \ T : after[i].state = before[i].state

\* C11: flood(x, y) sets to Flooded exactly the cells of the partition of
\* (x, y) in the rows y and below; every other cell keeps its state.
C11_FloodFrame ==
    call.rule = "flood" =>
        WritesExactly(round_start, cells,
                      Targets(round_start, call.x, call.y, call.y, height - 1),
                      "Flooded")

\* C11 witness: a flood has just written an Invalid cell and another cell
\* of a partition that has a non-Flooded cell in a row above, next to a
\* non-Flooded cell of another partition in a flooded row.
C11_Witness ==
    /\ call.rule = "flood"
    /\ call.was = "Invalid"
    /\ \E i, j, k \in DOMAIN cells :
          /\ i # call.y * width + call.x
          /\ i \in Targets(round_start, call.x, call.y, call.y, height - 1)
          /\ round_start[i].state = "Empty"
          /\ cells[j].partition = cells[i].partition
          /\ RowOf(j) < call.y
          /\ cells[j].state = "Empty"
          /\ cells[k].partition # cells[i].partition
          /\ RowOf(k) >= call.y
          /\ cells[k].state # "Flooded"

\* C12: invalidate(x, y) sets to Invalid exactly the cells of the
\* partition of (x, y) in the rows y and above; every other cell keeps its
\* state.
C12_InvalidateFrame ==
    call.rule = "invalidate" =>
        WritesExactly(round_start, cells,
                      Targets(round_start, call.x, call.y, 0, call.y),
                      "Invalid")

\* C12 witness: an invalidate has just written a Flooded cell and another
\* cell of a partition that has a non-Invalid cell in a row below, next to
\* a non-Invalid cell of another partition in an invalidated row.
C12_Witness ==
    /\ call.rule = "invalidate"
    /\ call.was = "Flooded"
    /\ \E i, j, k \in DOMAIN cells :
          /\ i # call.y * width + call.x
          /\ i \in Targets(round_start, call.x, call.y, 0, call.y)
          /\ round_start[i].state = "Empty"
          /\ cells[j].partition = cells[i].partition
          /\ RowOf(j) > call.y
          /\ cells[j].state = "Empty"
          /\ cells[k].partition # cells[i].partition
          /\ RowOf(k) <= call.y
          /\ cells[k].state # "Invalid"

\* C13: no step of solve() and no flood, invalidate or set_cell_at call
\* changes width, height, a hint or the partition id of a cell.
C13_MembershipFrozen ==
    [][/\ width' = width
       /\ height' = height
       /\ row_hints' = row_hints
       /\ col_hints' = col_hints
       /\ DOMAIN cells' = DOMAIN cells
       /\ \A i \in DOMAIN cells : cells'[i].partition = cells[i].partition]_vars

\* C13 witness: solve() has returned from a board of several partitions
\* after flooding a cell of a partition other than 0.
C13_Witness ==
    /\ pc = "done"
    /\ fired_rounds > 0
    /\ \E i, j \in DOMAIN cells :
          /\ cells[i].partition # 0
          /\ cells[i].state = "Flooded"
          /\ cells[j].partition = 0
          /\ cells[j].state = "Invalid"

EmptyCount(cs) == Cardinality({i \in DOMAIN cs : cs[i].state = "Empty"})

\* C14 (as claimed): a round in which a rule fired ends with strictly
\* fewer Empty cells than it began with.
C14_RoundProgress ==
    (pc = "check" /\ updated) => EmptyCount(cells) < EmptyCount(round_start)

\* The cell states agree with the levels: Flooded cells are flooded under
\* them and Invalid cells are not.
Agrees(cs, level) ==
    \A i \in DOMAIN cs :
        /\ cs[i].state = "Flooded" => Wet(level, i)
        /\ cs[i].state = "Invalid" => ~Wet(level, i)

\* C15: during solve() on a board that has a valid solution, every
\* Flooded cell is flooded in every valid solution and every Invalid cell
\* is flooded in none.
C15_Sound ==
    pc \notin {"fixture", "queried", "calls"} =>
        \A level \in solutions : Agrees(cells, level)

\* C15 witness: solve() has returned from a board with a valid solution
\* after two rounds in which rules fired, with Flooded and Invalid cells.
C15_Witness ==
    /\ pc = "done"
    /\ run = 1
    /\ fired_rounds >= 2
    /\ solutions # {}
    /\ \E i, j \in DOMAIN cells :
          /\ cells[i].state = "Flooded"
          /\ cells[j].state = "Invalid"

\* The physics invariants of C2 and C3 on the cells cs.
Physics(cs) ==
    \A i, j \in DOMAIN cs :
        cs[i].partition = cs[j].partition =>
            /\ RowOf(i) = RowOf(j) => cs[i].state = cs[j].state
            /\ RowOf(i) < RowOf(j) =>
                  /\ cs[j].state = "Invalid" => cs[i].state = "Invalid"
                  /\ cs[i].state = "Flooded" => cs[j].state = "Flooded"

\* The rows of column x whose cell belongs to partition p and has state s.
ColRowsIn(cs, x, p, s) ==
    {y \in 0..height - 1 : /\ partition_at(cs, x, y) = p
                           /\ cell_state_at(cs, x, y) = s}

\* The n lowest-numbered (topmost) rows of the set E.
Topmost(E, n) == {y \in E : Cardinality({y2 \in E : y2 < y}) < n}

\* The n highest-numbered (bottommost) rows of the set E.
Bottommost(E, n) == {y \in E : Cardinality({y2 \in E : y2 > y}) < n}

\* In column x, from `before` to `after`, exactly the rows of T took the
\* state s and no other cell of the column changed.
ColumnWrites(before, after, x, T, s) ==
    \A y \in 0..height - 1 :
        cell_state_at(after, x, y) =
            IF y \in T THEN s ELSE cell_state_at(before, x, y)

\* C16: when R3 fires for the partition P of column ix with
\* extra = emptyInCol - remainder > 0, the physics invariants holding and
\* remainder >= 0, its invalidate turns Invalid exactly the `extra` topmost
\* Empty cells of P in the column, leaves exactly `remainder` Empty cells
\* of P in the column and changes no Flooded cell of P.
C16_R3Effect ==
    [][(pc = "R3" /\ call'.rule = "R3" /\ Physics(cells) /\ remainder >= 0) =>
          LET P == partition'
              E == ColRowsIn(cells, ix, P, "Empty")
              extra == Cardinality(E) - remainder
          IN /\ extra > 0
             /\ ColumnWrites(cells, cells', ix, Topmost(E, extra), "Invalid")
             /\ Cardinality(Topmost(E, extra)) = extra
             /\ Cardinality(ColRowsIn(cells', ix, P, "Empty")) = remainder
             /\ \A i \in DOMAIN cells :
                   (cells[i].partition = P /\ cells[i].state = "Flooded")
                       => cells'[i].state = "Flooded"]_vars

\* C16 witness: R3 has just invalidated an Empty cell of a partition that
\* keeps an Empty cell in the column, the remainder being positive.
C16_Witness ==
    /\ call.rule = "R3"
    /\ call.was = "Empty"
    /\ remainder > 0
    /\ ColRowsIn(cells, call.x, partition, "Empty") # {}
    /\ ColRowsIn(cells, call.x, partition, "Invalid") # {}

\* C17: when R4 fires for the partition P of column ix with
\* required = remainder - (Empty cells of the other partitions) > 0, the
\* physics invariants holding and required <= emptyInCol of P, its flood
\* turns Flooded exactly the `required` bottommost Empty cells of P in the
\* column; the other Empty cells and the Invalid cells of the column are
\* unchanged.
C17_R4Effect ==
    [][LET P == partition
           E == ColRowsIn(cells, ix, P, "Empty")
           required == remainder - OtherEmptyCount(map_state_totals, P)
       IN (pc = "R4" /\ call'.rule = "R4" /\ Physics(cells)
              /\ required <= Cardinality(E)) =>
             /\ required > 0
             /\ ColumnWrites(cells, cells', ix, Bottommost(E, required), "Flooded")
             /\ Cardinality(Bottommost(E, required)) = required]_vars

\* C17 witness: R4 has just flooded an Empty cell of a partition whose
\* cell above it in the column R3 invalidated in the same iteration.
C17_Witness ==
    /\ call.rule = "R4"
    /\ call.was = "Empty"
    /\ remainder > 0
    /\ \E y \in 0..height - 1 :
          /\ y < call.y
          /\ partition_at(cells, call.x, y) = partition_at(cells, call.x, call.y)
          /\ cell_state_at(cells, call.x, y) = "Invalid"
          /\ cell_state_at(round_start, call.x, y) = "Empty"

\* C18: on a board that has a valid solution solve() never panics: the
\* R3 and R4 indices are valid indices of the partition's row list and the
\* Empty total of R2 is present.
C18_NoPanic == solutions # {} => pc # "panic"

\* C18 witness: on a board with a valid solution, R4 has just flooded at
\* an index other than 0 of a row list.
C18_Witness ==
    /\ HasSolution
    /\ call.rule = "R4"
    /\ call.y > 0
    /\ partition_at(cells, call.x, call.y - 1) = partition_at(cells, call.x, call.y)

\* C19: on a board with a valid solution, a second run of solve() from
\* the all-Empty board, free to visit the partitions of every column in
\* another order, returns the cell states the first run returned.
C19_OrderIndependent ==
    (run = 3 /\ pc = "done") => States(cells) = States(returned)

\* C19 witness: both runs have returned, rules fired in the column pass,
\* and a column of several partitions was visited in two different orders.
C19_Witness ==
    /\ run = 3
    /\ pc = "done"
    /\ fired_rounds >= 1
    /\ \E x \in 0..width - 1 :
          /\ Len(order[x]) >= 2
          /\ order[x] # first_order[x]
          /\ \E y \in 0..height - 1 : cell_state_at(cells, x, y) # "Empty"

(***************************************************************************)
(* The reference engine of C20: the rules of solve() applied to the same   *)
(* cell or partition, with the row or column aggregates recomputed from    *)
(* the grid cs immediately before the check.  A step gives the cells it    *)
(* leaves, whether the rule fired, and whether an index was out of range.  *)
(***************************************************************************)
RefResult(cs, fire, panic) == [cells |-> cs, fire |-> fire, panic |-> panic]

RefR1(cs, x, y) ==
    LET fire == R1Fires(cell_at(cs, x, y), RowSizes(cs, y), RowRemainder(cs, y))
    IN RefResult(IF fire THEN invalidate(cs, x, y) ELSE cs, fire, FALSE)

RefR2(cs, x, y) ==
    LET cell == cell_at(cs, x, y)
        fire == /\ cell.state = "Empty"
                /\ R2Fires(RowTotals(cs, y), RowSizes(cs, y), cell.partition,
                           RowRemainder(cs, y))
    IN RefResult(IF fire THEN flood(cs, x, y) ELSE cs, fire, FALSE)

RefR3(cs, x, p) ==
    LET totals == ColStateTotals(cs, x)
        iy_list == ColLists(cs, x, height)[p]
        partition_extra == Get(totals[p], "Empty", 0) - ColRemainder(cs, x)
        idx == R3Index(Get(totals[p], "Invalid", 0), partition_extra)
        fire == partition_extra > 0
    IN IF fire /\ IndexPanics(idx, iy_list) THEN RefResult(cs, TRUE, TRUE)
       ELSE RefResult(IF fire THEN invalidate(cs, x, iy_list[idx + 1]) ELSE cs,
                      fire, FALSE)

RefR4(cs, x, p) ==
    LET totals == ColStateTotals(cs, x)
        iy_list == ColLists(cs, x, height)[p]
        partition_required == ColRemainder(cs, x) - OtherEmptyCount(totals, p)
        idx == R4Index(Get(totals[p], "Invalid", 0), Get(totals[p], "Empty", 0),
                       partition_required)
        fire == partition_required > 0
    IN IF fire /\ IndexPanics(idx, iy_list) THEN RefResult(cs, TRUE, TRUE)
       ELSE RefResult(IF fire THEN flood(cs, x, iy_list[idx + 1]) ELSE cs,
                      fire, FALSE)

\* C20: on a board with a valid solution, every rule check of solve(),
\* made on the aggregates taken when the row or column was entered, leaves
\* the cells and the `updated` flag the reference engine leaves from the
\* same grid at the same cell or partition; step by step the two engines
\* go through the same grids, hence return the same final state.
C20_StaleAsFresh ==
    [][(solutions # {} /\ pc \in {"R1", "R2", "R3", "R4"}) =>
          LET ref == CASE pc = "R1" -> RefR1(cells, ix, iy)
                       [] pc = "R2" -> RefR2(cells, ix, iy)
                       [] pc = "R3" -> RefR3(cells, ix, partition')
                       [] pc = "R4" -> RefR4(cells, ix, partition)
          IN /\ pc' # "panic"
             /\ ~ref.panic
             /\ cells' = ref.cells
             /\ updated' = (updated \/ ref.fire)]_vars

\* C20 witness: on a board with a valid solution R2 is about to fire on
\* an Empty cell with row aggregates that an earlier flood of the same row
\* has made stale.
C20_Witness ==
    /\ HasSolution
    /\ pc = "R2"
    /\ ix > 0
    /\ cell_state_at(cells, ix, iy) = "Empty"
    /\ map_totals # RowTotals(cells, iy)
    /\ remainder # RowRemainder(cells, iy)
    /\ R2Fires(map_totals, row_partitions[iy], partition_at(cells, ix, iy), remainder)

\* C21: during solve() on a board that has a valid solution, no row and
\* no column has more Flooded cells than its hint.
C21_NoOvershoot ==
    solutions # {} =>
        /\ \A y \in 0..height - 1 : FloodedInRow(cells, y) <= row_hints[y]
        /\ \A x \in 0..width - 1 : FloodedInCol(cells, x) <= col_hints[x]

\* C21 witness: on a board with a valid solution a flood has just filled a
\* row up to its hint while a cell of the row is not Flooded, in a column
\* that has reached its hint as well.
C21_Witness ==
    /\ solutions # {}
    /\ call.rule \in {"R2", "R4"}
    /\ FloodedInRow(cells, call.y) = row_hints[call.y]
    /\ FloodedInCol(cells, call.x) = col_hints[call.x]
    /\ \E x \in 0..width - 1 : cell_state_at(cells, x, call.y) # "Flooded"
    /\ \E y \in 0..height - 1 : cell_state_at(cells, call.x, y) # "Flooded"

\* C22: on a board that has a valid solution, when solve() has returned
\* with no Empty cell left, is_solved() is true.
C22_DecidedIsSolved ==
    (solutions # {} /\ pc = "done" /\ NoEmpty(cells)) => is_solved(cells)

\* C22 witness: solve() has returned a fully decided and solved board
\* with Flooded and Invalid cells in one row and in one column.
C22_Witness ==
    /\ solutions # {}
    /\ pc = "done"
    /\ NoEmpty(cells)
    /\ is_solved(cells)
    /\ \E i, j, k \in DOMAIN cells :
          /\ cells[i].state = "Flooded"
          /\ cells[j].state = "Invalid"
          /\ cells[k].state = "Invalid"
          /\ RowOf(i) = RowOf(j)
          /\ i % width = k % width

\* C23: once solve() has built col_partitions, for every column x the
\* map has exactly the partitions present in the column, and the row list
\* of each partition p is strictly ascending and holds exactly the rows y
\* with partition_at(x, y) = p: entry k is the (k+1)-th topmost cell of p.
C23_ColumnListsSorted ==
    pc \in {"loop", "R1", "R2", "R3", "R4", "check", "done", "panic"} =>
        \A x \in 0..width - 1 :
            LET part_x == col_partitions[x]
            IN /\ DOMAIN part_x = {partition_at(cells, x, y) : y \in 0..height - 1}
               /\ \A p \in DOMAIN part_x :
                     LET iy_list == part_x[p]
                     IN /\ \A k \in 1..Len(iy_list) - 1 : iy_list[k] < iy_list[k + 1]
                        /\ {iy_list[k] : k \in 1..Len(iy_list)} =
                               {y \in 0..height - 1 : partition_at(cells, x, y) = p}

\* C23 witness: R4 has flooded through the row list of a partition that
\* is in two rows of a column with a row of another partition in between.
C23_Witness ==
    /\ call.rule = "R4"
    /\ \E x \in 0..width - 1 : \E p \in DOMAIN col_partitions[x] :
          /\ Len(col_partitions[x][p]) >= 2
          /\ col_partitions[x][p][2] > col_partitions[x][p][1] + 1

\* The number of cells of row y in the state s.
CountInRow(cs, y, s) ==
    Cardinality({x \in 0..width - 1 : cell_state_at(cs, x, y) = s})

\* C24: in every state of solve() from an all-Empty board, for every row
\* the totals computed from the partition sizes and the state of each
\* partition's first cell are the numbers of Empty, Flooded and Invalid
\* cells of the row, the remainder computed from them is the hint minus
\* the number of Flooded cells, and so are the remainder R1 checks with
\* and the aggregates R2 takes on entering a row.
C24_RowAggregatesExact ==
    pc \in {"loop", "R1", "R2", "R3", "R4", "check", "done", "panic"} =>
        /\ \A y \in 0..height - 1 :
              LET map_sizes == row_partitions[y]
                  totals == row_state_counts(map_sizes, row_partition_states(cells, y))
              IN /\ \A p \in DOMAIN map_sizes :
                       map_sizes[p] = Cardinality({x \in 0..width - 1 :
                                                      partition_at(cells, x, y) = p})
                 /\ \A s \in CellState : Get(totals, s, 0) = CountInRow(cells, y, s)
                 /\ RowRemainder(cells, y) = row_hints[y] - CountInRow(cells, y, "Flooded")
        /\ pc = "R1" => remainder = row_hints[iy] - CountInRow(cells, iy, "Flooded")
        /\ (pc = "R2" /\ ix = 0) =>
              /\ remainder = row_hints[iy] - CountInRow(cells, iy, "Flooded")
              /\ \A s \in CellState : Get(map_totals, s, 0) = CountInRow(cells, iy, s)

\* C24 witness: R1 has just invalidated a partition of two cells of a row
\* whose hint is positive, next to a cell of the row that is still Empty.
C24_Witness ==
    /\ call.rule = "R1"
    /\ row_hints[call.y] > 0
    /\ \E i, j, k \in DOMAIN cells :
          /\ i # j
          /\ RowOf(i) = call.y
          /\ RowOf(j) = call.y
          /\ RowOf(k) = call.y
          /\ cells[i].partition = cells[j].partition
          /\ cells[i].state = "Invalid"
          /\ cells[k].state = "Empty"

====
